---- MODULE Spec2Model ----
(***************************************************************************)
(* Model of the concurrent translation run of cli.py (_run and its nested  *)
(* worker), the retry loop of aoai_async_client.translate_one_async and    *)
(* ProgressReporter.maybe_print.                                           *)
(*                                                                         *)
(* One worker task exists per eligible unit.  Tasks interleave at their    *)
(* suspension points (semaphore acquire, remote call, backoff sleep, lock  *)
(* acquire).  The body of the lock-guarded section holds no suspension     *)
(* point and is one step; the coordinator (_run, asyncio.run) only runs    *)
(* while no task is inside the section.                                    *)
(***************************************************************************)
EXTENDS Integers, Sequences, FiniteSets, TLC

\* ------------------------------------------------------------- bounds
NUnits == 2
MaxConc == 2
MaxRetries == 1
DeepRetries == 2
MaxEvery == 2
MaxAttempt == 1025

Units == 1..NUnits

\* ------------------------------------------------------------- values
NoResult == [ok |-> FALSE, text |-> "", input_tokens |-> 0, output_tokens |-> 0,
             error_code |-> "none"]

\* What <translation> elements the input document can hold.
EmptyElem == [text |-> "", type |-> "none"]
UnfinishedElem == [text |-> "old", type |-> "unfinished"]
FinishedElem == [text |-> "old", type |-> "none"]
InitialElems == {EmptyElem, UnfinishedElem, FinishedElem}

\* What a successful remote call can answer: output_text and the usage.
Responses == {[output_text |-> "", input_tokens |-> 0, output_tokens |-> 0],
              [output_text |-> " tr ", input_tokens |-> 1, output_tokens |-> 2]}

\* What a failing remote call can raise: the exception class and, for a
\* BadRequestError, the error.code of the response body.
Exceptions == {[cls |-> "BadRequestError", code |-> "content_filter"],
               [cls |-> "BadRequestError", code |-> "invalid_prompt"],
               [cls |-> "TimeoutError", code |-> ""]}

\* min(30.0, ...): the cap of the base delay, in half-seconds
BackoffCap == 60

\* 2 ** 1024 is the first power of two that float() cannot hold
FloatMaxExp == 1024

\* what `(2 ** attempt) * 0.5` raises when 2 ** attempt cannot be converted
OverflowError == [cls |-> "OverflowError", code |-> ""]

\* the exception of a task that has not raised
NoExc == [cls |-> "None", code |-> ""]

\* A file is absent, or holds one document.
NoFile == <<>>
File(d) == <<d>>

VARIABLES
    args,              \* concurrency, max_retries, save_every, progress_every
    doc,               \* unit -> its <translation> element (text, type)
    doc0,              \* the document as it was parsed
    run_pc,            \* position of _run: "init", "gather", "done", "aborted"
    targets,           \* eligible units, in document order
    pc,                \* unit -> position of its worker task
    attempt,           \* unit -> loop variable of translate_one_async
    calls,             \* unit -> remote calls issued
    sleeps,            \* unit -> backoff sleeps started
    delays,            \* unit -> base delays of its sleeps, in half-seconds
    answers,           \* unit -> what the remote calls answered, in order
    task_exc,          \* unit -> the exception its task ended with, or NoExc
    raiser,            \* unit whose exception asyncio.gather holds, 0 if none
    traceback,         \* NoFile, or File(what the uncaught exception printed)
    result,            \* unit -> TranslateResult held by the worker
    sem,               \* free permits of the semaphore
    lock,              \* unit whose worker holds the lock, 0 when free
    translated_count,
    failed_count,
    skipped_count,
    usage,             \* UsageTotals
    failed_log,        \* records appended to translate_failed.jsonl
    reports,           \* processed values at which a progress line was printed
    ckpts,             \* processed values at which a checkpoint write was made
    ckptFailed,        \* whether a checkpoint write of this run has raised
    partial,           \* the .partial file: NoFile or File(document)
    lastCkpt,          \* NoFile, or File(what the last checkpoint saw)
    output,            \* the output file: NoFile or File(document)
    finalWrites,       \* writes made to the output path
    summary            \* whether the DONE summary was printed

vars == <<args, doc, doc0, run_pc, targets, pc, attempt, calls, sleeps, delays, answers,
          task_exc, raiser, traceback, result,
          sem, lock, translated_count, failed_count, skipped_count, usage,
          failed_log, reports, ckpts, ckptFailed, partial, lastCkpt, output, finalWrites,
          summary>>

\* ------------------------------------------------------------- helpers
\* str.strip() on the texts of the model.
Strip(t) == CASE t = " " -> ""
              [] t = " tr " -> "tr"
              [] OTHER -> t

\* cli._text applied to a translation element.
ElemText(elem) == Strip(elem.text)

ShouldTranslateIgnoringMarker(elem) == ElemText(elem) = ""

\* cli._should_translate
ShouldTranslate(elem) ==
    IF elem.type = "unfinished" THEN TRUE ELSE ElemText(elem) = ""

\* cli._count_candidates: every unit of the model has a source text.
CountCandidates == Cardinality(Units)

RECURSIVE SeqOfSet(_)
SeqOfSet(S) ==
    IF S = {} THEN <<>>
    ELSE LET m == CHOOSE x \in S : \A y \in S : x <= y
         IN <<m>> \o SeqOfSet(S \ {m})

\* targets list of _run, in document order.
CollectTargets(d) == SeqOfSet({u \in Units : ShouldTranslate(d[u])})

\* already_done of _run.
AlreadyDone(d) == Cardinality({u \in Units : ~ShouldTranslate(d[u])})

TargetSet == {targets[i] : i \in 1..Len(targets)}

\* index given to worker(i, item) by enumerate(targets, start=1).
IndexOf(u) == CHOOSE i \in 1..Len(targets) : targets[i] = u

\* tasks that hold a permit of the semaphore
InSem == {u \in Units : pc[u] \in {"call", "sleep"}}

\* tasks inside the lock-guarded section
InLock == {u \in Units : pc[u] = "locked"}

Terminal == {"none", "done", "raised", "cancelled"}

\* ------------------------------------------------------------- Init
\* The state before _run starts, for the argument values given: concurrency in
\* C, max_retries in R, save_every in S, progress_every in P.
InitWith(C, R, S, P) ==
    /\ args \in [concurrency : C, max_retries : R, save_every : S,
                 progress_every : P]
    /\ doc \in [Units -> InitialElems]
    /\ doc0 = doc
    /\ run_pc = "init"
    /\ targets = <<>>
    /\ pc = [u \in Units |-> "none"]
    /\ attempt = [u \in Units |-> 0]
    /\ calls = [u \in Units |-> 0]
    /\ sleeps = [u \in Units |-> 0]
    /\ delays = [u \in Units |-> <<>>]
    /\ answers = [u \in Units |-> <<>>]
    /\ task_exc = [u \in Units |-> NoExc]
    /\ raiser = 0
    /\ traceback = NoFile
    /\ result = [u \in Units |-> NoResult]
    /\ sem = 0
    /\ lock = 0
    /\ translated_count = 0
    /\ failed_count = 0
    /\ skipped_count = 0
    /\ usage = [input_tokens |-> 0, output_tokens |-> 0]
    /\ failed_log = <<>>
    /\ reports = <<>>
    /\ ckpts = <<>>
    /\ ckptFailed = FALSE
    /\ partial = NoFile
    /\ lastCkpt = NoFile
    /\ output = NoFile
    /\ finalWrites = 0
    /\ summary = FALSE

\* Runs that vary the concurrency limit and the retry bound; checkpoints and
\* progress lines are switched off (--save-every 0 --progress-every 0).
Init == InitWith(1..MaxConc, 0..MaxRetries, {0}, {0})

\* Runs of one call at a time that vary the retry bound further.
InitRetry == InitWith({1}, 0..DeepRetries, {0}, {0})

\* Runs that vary the checkpoint interval.
InitCkpt == InitWith({MaxConc}, {MaxRetries}, 0..MaxEvery, {0})

\* Runs that vary the progress interval.
InitProgress == InitWith({MaxConc}, {MaxRetries}, {0}, 0..MaxEvery)

\* Runs of one call at a time under the largest retry bound.
InitFair == InitWith({1}, {MaxRetries}, {0}, {0})

\* Runs over a document with one eligible unit, under a large retry bound.
InitBackoff ==
    /\ InitWith({1}, {MaxAttempt}, {0}, {0})
    /\ \A u \in Units : doc[u] = IF u = 1 THEN EmptyElem ELSE FinishedElem

\* ------------------------------------------------------------- _run: start
\* cli._run up to the creation of the tasks.
Launch ==
    /\ run_pc = "init"
    /\ run_pc' = "gather"
    /\ targets' = CollectTargets(doc)
    /\ skipped_count' = AlreadyDone(doc)
    /\ sem' = args.concurrency
    /\ pc' = [u \in Units |-> IF ShouldTranslate(doc[u]) THEN "created" ELSE "none"]
    /\ UNCHANGED <<task_exc, raiser, traceback, args, doc, doc0, attempt, calls, sleeps, delays, answers, result, lock,
                   translated_count, failed_count, usage, failed_log, reports,
                   ckpts, ckptFailed, partial, lastCkpt, output, finalWrites, summary>>

\* ------------------------------------------------------------- worker
\* the unit's context name and source text: fixed, one per unit
ContextName(u) == <<"ctx", u>>
SourceText(u) == <<"src", u>>

SemAvailableOffByOne == sem >= 0

\* asyncio.Semaphore: `async with sem` enters only while a permit is free.
SemAvailable == sem > 0

SemAfterReleaseHeld == sem

\* asyncio.Semaphore: the free permits once a task has left `async with sem`
SemAfterRelease == sem + 1

LockNotChecked == TRUE

\* asyncio.Lock: `async with lock` enters only while nobody holds it.
LockAvailable == lock = 0

IsLastAttemptOffByOne(a) == a > args.max_retries

\* translate_one_async: `if attempt >= max_retries: break`
IsLastAttempt(a) == a >= args.max_retries

\* translate_one_async: the TranslateResult of a successful call.
SuccessResult(resp) ==
    [ok |-> TRUE, text |-> Strip(resp.output_text),
     input_tokens |-> resp.input_tokens, output_tokens |-> resp.output_tokens,
     error_code |-> ""]

IsContentFilterErrorWrongCode(exc) ==
    IF exc.cls # "BadRequestError" THEN FALSE ELSE exc.code = "ContentFilter"

\* aoai_async_client._is_content_filter_error
IsContentFilterError(exc) ==
    IF exc.cls # "BadRequestError" THEN FALSE ELSE exc.code = "content_filter"

\* translate_one_async: the TranslateResult of a content_filter rejection.
ContentFilterResult ==
    [ok |-> FALSE, text |-> "", input_tokens |-> 0, output_tokens |-> 0,
     error_code |-> "content_filter"]

\* how the remote service meant the failure: a content-policy rejection or a
\* transient failure (recorded in answers, not read by the program)
KindOf(exc) ==
    IF exc = [cls |-> "BadRequestError", code |-> "content_filter"]
    THEN "content_filter" ELSE "transient"

\* worker: `async with sem:` and the first remote call of translate_one_async.
AcquireSem(u) ==
    /\ pc[u] = "created"
    /\ SemAvailable
    /\ sem' = sem - 1
    /\ pc' = [pc EXCEPT ![u] = "call"]
    /\ attempt' = [attempt EXCEPT ![u] = 0]
    /\ calls' = [calls EXCEPT ![u] = @ + 1]
    /\ UNCHANGED <<task_exc, raiser, traceback, args, doc, doc0, run_pc, targets, sleeps, delays, answers, result,
                   lock, translated_count, failed_count, skipped_count, usage,
                   failed_log, reports, ckpts, ckptFailed, partial, lastCkpt, output,
                   finalWrites, summary>>

\* The remote call answers: translate_one_async returns ok=True and the worker
\* leaves `async with sem`.
CallOk(u) ==
    /\ pc[u] = "call"
    /\ \E resp \in Responses : result' = [result EXCEPT ![u] = SuccessResult(resp)]
    /\ answers' = [answers EXCEPT ![u] = Append(@, "ok")]
    /\ sem' = SemAfterRelease
    /\ pc' = [pc EXCEPT ![u] = "wantlock"]
    /\ UNCHANGED <<task_exc, raiser, traceback, args, doc, doc0, run_pc, targets, attempt, calls, sleeps, delays, lock,
                   translated_count, failed_count, skipped_count, usage,
                   failed_log, reports, ckpts, ckptFailed, partial, lastCkpt, output,
                   finalWrites, summary>>

Min(a, b) == IF a <= b THEN a ELSE b

\* `(2 ** attempt) * 0.5`: the int is converted to float for the product
FloatOverflows(a) == a >= FloatMaxExp

\* `min(30.0, (2 ** attempt) * 0.5)` in half-seconds; powers of two from
\* 2 ** 6 on exceed the cap
BaseDelay(a) == IF a < 6 THEN Min(BackoffCap, 2 ^ a) ELSE BackoffCap

\* asyncio.gather keeps the exception of the first task that raised.
FirstException(u) == IF raiser = 0 THEN u ELSE raiser

\* The remote call raises (or asyncio.wait_for times out): the except block of
\* translate_one_async.  A content_filter rejection is returned as ok=False
\* and the worker leaves `async with sem`; on the last attempt the loop
\* breaks and last_exc is raised through `async with sem` out of the worker;
\* otherwise the backoff is computed, which raises OverflowError out of the
\* worker when the power of two does not fit a float, and the sleep of base
\* delay plus jitter starts.  last_exc is read only by the raise, so
\* it is kept from there on, as the exception of the task.
CallRaises(u) ==
    /\ pc[u] = "call"
    /\ \E exc \in Exceptions :
         /\ answers' = [answers EXCEPT ![u] = Append(@, KindOf(exc))]
         /\ IF IsContentFilterError(exc)
            THEN /\ result' = [result EXCEPT ![u] = ContentFilterResult]
                 /\ pc' = [pc EXCEPT ![u] = "wantlock"]
                 /\ sem' = SemAfterRelease
                 /\ UNCHANGED <<sleeps, delays, task_exc, raiser>>
            ELSE IF IsLastAttempt(attempt[u])
            THEN /\ pc' = [pc EXCEPT ![u] = "raised"]
                 /\ sem' = SemAfterRelease
                 /\ task_exc' = [task_exc EXCEPT ![u] = exc]
                 /\ raiser' = FirstException(u)
                 /\ UNCHANGED <<result, sleeps, delays>>
            ELSE IF FloatOverflows(attempt[u])
            THEN /\ pc' = [pc EXCEPT ![u] = "raised"]
                 /\ sem' = SemAfterRelease
                 /\ task_exc' = [task_exc EXCEPT ![u] = OverflowError]
                 /\ raiser' = FirstException(u)
                 /\ UNCHANGED <<result, sleeps, delays>>
            ELSE /\ pc' = [pc EXCEPT ![u] = "sleep"]
                 /\ sleeps' = [sleeps EXCEPT ![u] = @ + 1]
                 /\ delays' = [delays EXCEPT ![u] = Append(@, BaseDelay(attempt[u]))]
                 /\ UNCHANGED <<result, sem, task_exc, raiser>>
    /\ UNCHANGED <<traceback, args, doc, doc0, run_pc, targets, attempt, calls, lock,
                   translated_count, failed_count, skipped_count, usage,
                   failed_log, reports, ckpts, ckptFailed, partial, lastCkpt, output,
                   finalWrites, summary>>

\* translate_one_async: `for attempt in range(max_retries + 1)` has a next value
LoopContinues(a) == a + 1 < args.max_retries + 1

\* asyncio.sleep(backoff) ends: the next iteration of the loop issues a call;
\* when the range is used up, last_exc is raised out of the worker.
WakeUp(u) ==
    /\ pc[u] = "sleep"
    /\ IF LoopContinues(attempt[u])
       THEN /\ pc' = [pc EXCEPT ![u] = "call"]
            /\ attempt' = [attempt EXCEPT ![u] = @ + 1]
            /\ calls' = [calls EXCEPT ![u] = @ + 1]
            /\ UNCHANGED <<sem, task_exc, raiser>>
       ELSE /\ pc' = [pc EXCEPT ![u] = "raised"]
            /\ sem' = SemAfterRelease
            /\ \E exc \in {e \in Exceptions : ~IsContentFilterError(e)} :
                 task_exc' = [task_exc EXCEPT ![u] = exc]
            /\ raiser' = FirstException(u)
            /\ UNCHANGED <<attempt, calls>>
    /\ UNCHANGED <<traceback, args, doc, doc0, run_pc, targets, sleeps, delays, answers, result, lock,
                   translated_count, failed_count, skipped_count, usage,
                   failed_log, reports, ckpts, ckptFailed, partial, lastCkpt, output,
                   finalWrites, summary>>

\* worker: `async with lock:`
AcquireLock(u) ==
    /\ pc[u] = "wantlock"
    /\ LockAvailable
    /\ lock' = u
    /\ pc' = [pc EXCEPT ![u] = "locked"]
    /\ UNCHANGED <<task_exc, raiser, traceback, args, doc, doc0, run_pc, targets, attempt, calls, sleeps, delays, answers,
                   result, sem, translated_count, failed_count, skipped_count,
                   usage, failed_log, reports, ckpts, ckptFailed, partial, lastCkpt, output,
                   finalWrites, summary>>

ItemOfFirstTarget(u) == targets[1]

\* worker(i, item): the unit whose element the task of u writes, bound when
\* the task is created
ItemOf(u) == u

MutatedElemKeepsMarker(elem, res) ==
    IF res.ok THEN [elem EXCEPT !.text = res.text]
    ELSE [elem EXCEPT !.type = "unfinished"]

\* worker: the element after the outcome is written into it.
MutatedElem(elem, res) ==
    IF res.ok THEN [text |-> res.text, type |-> "none"]
    ELSE [elem EXCEPT !.type = "unfinished"]

UsageAddSwapped(tot, input_tokens, output_tokens) ==
    [input_tokens |-> tot.input_tokens + output_tokens,
     output_tokens |-> tot.output_tokens + input_tokens]

\* UsageTotals.add
UsageAdd(tot, input_tokens, output_tokens) ==
    [input_tokens |-> tot.input_tokens + input_tokens,
     output_tokens |-> tot.output_tokens + output_tokens]

FailedRecordByPosition(u) ==
    [index |-> u, context |-> ContextName(u), source |-> SourceText(u),
     error_code |-> result[u].error_code]

\* worker: the record handed to _write_failed_log
FailedRecord(u) ==
    [index |-> IndexOf(u), context |-> ContextName(u), source |-> SourceText(u),
     error_code |-> result[u].error_code]

TranslatedAfterAlways(res) == translated_count + 1

\* worker: translated_count after the outcome `res`
TranslatedAfter(res) == IF res.ok THEN translated_count + 1 ELSE translated_count

FailedAfterUncounted(res) == failed_count

FailedAfterDoubled(res) == IF res.ok THEN failed_count ELSE failed_count + 2

\* worker: failed_count after the outcome `res`
FailedAfter(res) == IF res.ok THEN failed_count ELSE failed_count + 1

\* the total handed to ProgressReporter by _run
ReporterTotal == CountCandidates

MaybePrintWithoutTotal(translated, total, every) ==
    IF every <= 0 THEN FALSE
    ELSE IF translated = 0 THEN FALSE
    ELSE IF translated % every # 0 THEN FALSE
    ELSE TRUE

\* ProgressReporter.maybe_print: whether a line is printed.
MaybePrint(translated, total, every) ==
    IF every <= 0 THEN FALSE
    ELSE IF translated = 0 THEN FALSE
    ELSE IF translated % every # 0 /\ translated # total THEN FALSE
    ELSE TRUE

CheckpointDueWithoutModulo(processed) == args.save_every > 0

\* worker: `if args.save_every > 0 and processed % args.save_every == 0`
CheckpointDue(processed) ==
    IF args.save_every > 0 THEN processed % args.save_every = 0 ELSE FALSE

\* the result slot of a unit whose task is at position p holding result res
SlotOf(p, res) ==
    IF p = "done" THEN (IF res.ok THEN "Translated" ELSE "SkippedPolicy")
    ELSE "Unset"

\* what a checkpoint sees at the instant it is taken
Snapshot(d, p, tc, fc, wrote) ==
    [doc |-> d, slots |-> [v \in Units |-> SlotOf(p[v], result[v])],
     translated |-> tc, failed |-> fc, wrote |-> wrote]

\* worker: the body of `async with lock:` and the release of the lock.  The
\* body holds no suspension point.  tree.write of the checkpoint may raise;
\* the exception is printed and swallowed, the file is then left as it was.
ApplyOutcome(u) ==
    /\ pc[u] = "locked"
    /\ doc' = [doc EXCEPT ![ItemOf(u)] = MutatedElem(@, result[u])]
    /\ translated_count' = TranslatedAfter(result[u])
    /\ failed_count' = FailedAfter(result[u])
    /\ usage' = IF result[u].ok
                THEN UsageAdd(usage, result[u].input_tokens, result[u].output_tokens)
                ELSE usage
    /\ failed_log' = IF result[u].ok THEN failed_log
                     ELSE Append(failed_log, FailedRecord(u))
    /\ pc' = [pc EXCEPT ![u] = "done"]
    /\ lock' = 0
    /\ LET processed == translated_count' + failed_count'
       IN /\ reports' = IF MaybePrint(processed, ReporterTotal, args.progress_every)
                        THEN Append(reports, processed) ELSE reports
          /\ IF CheckpointDue(processed)
             THEN \E wrote \in BOOLEAN :
                    /\ ckpts' = Append(ckpts, processed)
                    /\ ckptFailed' = (ckptFailed \/ ~wrote)
                    /\ lastCkpt' = File(Snapshot(doc', pc', translated_count',
                                                 failed_count', wrote))
                    /\ partial' = IF wrote THEN File(doc') ELSE partial
             ELSE UNCHANGED <<ckpts, ckptFailed, lastCkpt, partial>>
    /\ UNCHANGED <<task_exc, raiser, traceback, args, doc0, run_pc, targets, attempt, calls, sleeps, delays, answers, result,
                   sem, skipped_count, output, finalWrites, summary>>

\* ------------------------------------------------------------- _run: end
AllTasksDoneAndCheckpointed ==
    (\A u \in TargetSet : pc[u] = "done") /\ ~ckptFailed

AnyTaskDone == TargetSet = {} \/ \E u \in TargetSet : pc[u] = "done"

AllTasksEnded == \A u \in TargetSet : pc[u] \in {"done", "raised"}

\* asyncio.gather returns once every task has returned.
AllTasksDone == \A u \in TargetSet : pc[u] = "done"

SomeTaskRaisedIgnored == FALSE

\* asyncio.gather re-raises the first exception of a task.
SomeTaskRaised == \E u \in TargetSet : pc[u] = "raised"

\* _run after `await asyncio.gather(*tasks)`: final write and summary.
Finish ==
    /\ run_pc = "gather"
    /\ AllTasksDone
    /\ output' = File(doc)
    /\ finalWrites' = finalWrites + 1
    /\ summary' = TRUE
    /\ run_pc' = "done"
    /\ UNCHANGED <<task_exc, raiser, traceback, args, doc, doc0, targets, pc, attempt, calls, sleeps, delays, answers, result,
                   sem, lock, translated_count, failed_count, skipped_count,
                   usage, failed_log, reports, ckpts, ckptFailed, partial, lastCkpt>>

\* What the interpreter prints for the exception that leaves main(): the
\* exception object as the remote call raised it.  No frame between the call
\* and main() catches it or adds to it.
Traceback(exc) == [cls |-> exc.cls, code |-> exc.code]

\* The exception of a task leaves `await asyncio.gather(*tasks)` and _run;
\* asyncio.run then cancels every task that has not ended.  A task is
\* cancelled at a suspension point, so never inside the lock-guarded section.
Abort ==
    /\ run_pc = "gather"
    /\ SomeTaskRaised
    /\ lock = 0
    /\ run_pc' = "aborted"
    /\ traceback' = File(Traceback(task_exc[raiser]))
    /\ pc' = [u \in Units |-> IF pc[u] \in Terminal THEN pc[u] ELSE "cancelled"]
    /\ sem' = sem + Cardinality(InSem)
    /\ UNCHANGED <<task_exc, raiser, args, doc, doc0, targets, attempt, calls, sleeps, delays, answers, result,
                   lock, translated_count, failed_count, skipped_count, usage,
                   failed_log, reports, ckpts, ckptFailed, partial, lastCkpt, output,
                   finalWrites, summary>>

Next ==
    \/ Launch
    \/ \E u \in Units : AcquireSem(u)
    \/ \E u \in Units : CallOk(u)
    \/ \E u \in Units : CallRaises(u)
    \/ \E u \in Units : WakeUp(u)
    \/ \E u \in Units : AcquireLock(u)
    \/ \E u \in Units : ApplyOutcome(u)
    \/ Finish
    \/ Abort

Spec == Init /\ [][Next]_vars

SpecRetry == InitRetry /\ [][Next]_vars

SpecCkpt == InitCkpt /\ [][Next]_vars

SpecProgress == InitProgress /\ [][Next]_vars

SpecBackoff == InitBackoff /\ [][Next]_vars

\* The event loop runs every callback that is ready, remote calls return and
\* sleeps end: no step that stays possible is put off for ever.
Fairness ==
    /\ WF_vars(Launch)
    /\ \A u \in Units :
         /\ WF_vars(AcquireSem(u))
         /\ WF_vars(CallOk(u) \/ CallRaises(u))
         /\ WF_vars(WakeUp(u))
         /\ WF_vars(AcquireLock(u))
         /\ WF_vars(ApplyOutcome(u))
    /\ WF_vars(Finish)
    /\ WF_vars(Abort)

SpecFair == InitFair /\ [][Next]_vars /\ Fairness

\* ------------------------------------------------------------- properties
R == args.max_retries

\* a unit whose translation was empty or marked unfinished when the run began
EligibleAtStart(u) == doc0[u].type = "unfinished" \/ doc0[u].text = ""

\* every remote call of the unit so far was rejected by the content policy
OnlyContentFilter(u) ==
    /\ answers[u] # <<>>
    /\ \A i \in 1..Len(answers[u]) : answers[u][i] = "content_filter"

\* every remote call of the unit so far failed transiently
OnlyTransient(u) == \A i \in 1..Len(answers[u]) : answers[u][i] = "transient"

\* C1: the number of tasks between acquiring and releasing the semaphore
\* (inside translate_one_async, backoff sleeps included) never exceeds the
\* configured concurrency limit.
ConcurrencyCap == Cardinality(InSem) <= args.concurrency

\* the gate is full, one task waits at it, and a holder is in a backoff sleep
ConcurrencyCapWitness ==
    /\ Cardinality(InSem) = args.concurrency
    /\ \E u \in Units : pc[u] = "created"
    /\ \E u \in Units : pc[u] = "sleep"

\* C2: at most one worker task is inside the lock-guarded section, and it is
\* the holder of the lock.
OutcomeSerialized ==
    /\ Cardinality(InLock) <= 1
    /\ \A u \in InLock : lock = u

\* one task is inside the section while another waits for the lock
OutcomeSerializedWitness ==
    \E u, v \in Units : u # v /\ pc[u] = "locked" /\ pc[v] = "wantlock"

\* C3: once the tasks are launched there is exactly one task for each unit
\* that was eligible at the start and none for the others; the element of an
\* already-satisfied unit is never changed and no call is made for it.
OneTaskPerEligibleUnit ==
    /\ \A u \in Units : ~EligibleAtStart(u) => doc[u] = doc0[u] /\ calls[u] = 0
    /\ run_pc # "init" =>
         \A u \in Units :
            IF EligibleAtStart(u)
            THEN /\ Cardinality({i \in 1..Len(targets) : targets[i] = u}) = 1
                 /\ pc[u] # "none"
            ELSE /\ u \notin TargetSet
                 /\ pc[u] = "none"

\* a finished run over a document that held an already-translated unit and
\* an unfinished one
OneTaskPerEligibleUnitWitness ==
    /\ run_pc = "done"
    /\ \E u, v \in Units :
         /\ doc0[u] = FinishedElem
         /\ doc0[v] = UnfinishedElem /\ pc[v] = "done"

\* C4: a unit whose calls were all rejected by the content policy was called
\* exactly once, never slept, got a non-ok result instead of an exception and,
\* once its outcome is applied, is marked unfinished with its text kept and
\* counted as failed; it never aborts the run.
PolicyRejectionNotRetried ==
    /\ \A u \in Units : OnlyContentFilter(u) =>
         /\ calls[u] = 1
         /\ sleeps[u] = 0
         /\ pc[u] \in {"wantlock", "locked", "done", "cancelled"}
         /\ ~result[u].ok
         /\ result[u].error_code = "content_filter"
         /\ pc[u] = "done" =>
              /\ doc[u] = [text |-> doc0[u].text, type |-> "unfinished"]
              /\ failed_count >= 1
    /\ run_pc = "aborted" => \E v \in Units : pc[v] = "raised" /\ ~OnlyContentFilter(v)

\* the run ended normally with one unit skipped by policy and another translated
PolicyRejectionNotRetriedWitness ==
    /\ run_pc = "done"
    /\ \E u, v \in Units :
         /\ u # v
         /\ OnlyContentFilter(u) /\ doc[u].type = "unfinished"
         /\ result[v].ok /\ pc[v] = "done"

\* C5: a unit whose calls all fail transiently is called at most R+1 times and
\* sleeps once after each failure but the last; the error is raised out of the
\* task exactly when the (R+1)th call has failed, after exactly R sleeps.
RetryExhaustion ==
    \A u \in Units :
        /\ calls[u] <= R + 1
        /\ sleeps[u] <= R
        /\ OnlyTransient(u) =>
             /\ sleeps[u] = Min(Len(answers[u]), R)
             /\ Len(answers[u]) = R + 1 <=> pc[u] = "raised"
        /\ pc[u] = "raised" =>
             /\ OnlyTransient(u)
             /\ calls[u] = R + 1
             /\ sleeps[u] = R

\* with max_retries = 2 a unit was called three times, slept twice and raised
RetryExhaustionWitness ==
    /\ R = 2
    /\ \E u \in Units : pc[u] = "raised" /\ calls[u] = 3 /\ sleeps[u] = 2

\* the processed values k, 2k, ... at which n units and interval k checkpoint
ExpectedCheckpoints(n, k) == [i \in 1..(n \div k) |-> i * k]

\* C6: with interval k > 0 the checkpoint writes are made at processed = k,
\* 2k, ... in this order; when all n units have ended in Success or
\* ContentPolicy there were exactly floor(n/k) of them, and exactly one final
\* write follows, which no state before the end of the run has made.
CheckpointCadence ==
    /\ args.save_every > 0 =>
         \A i \in 1..Len(ckpts) : ckpts[i] = i * args.save_every
    /\ (args.save_every > 0 /\ run_pc = "done") =>
         /\ ckpts = ExpectedCheckpoints(Len(targets), args.save_every)
         /\ finalWrites = 1
    /\ run_pc # "done" => finalWrites = 0

\* two units and interval 1: checkpoints at processed = 1 and 2, then the end
CheckpointCadenceWitness ==
    /\ run_pc = "done"
    /\ args.save_every = 1
    /\ Len(targets) = 2
    /\ ckpts = <<1, 2>>
    /\ finalWrites = 1

\* C7: when a run with progress lines enabled has ended with every eligible
\* unit in Success or ContentPolicy, a progress line was printed at processed =
\* number of eligible units.
FinalReportEmitted ==
    (run_pc = "done" /\ args.progress_every > 0 /\ Len(targets) > 0) =>
        \E i \in 1..Len(reports) : reports[i] = Len(targets)

\* C8 as stated: every run that has ended made exactly one final write.
FinalWriteOncePerRun ==
    run_pc \in {"done", "aborted"} => finalWrites = 1

\* C8 as amended: the final write is made at most once, exactly when the run
\* ends without an abort and whatever checkpoints were made; it then holds the
\* document, and every launched task has returned; a run has ended only when
\* every launched task is terminal; an aborted run makes no final write.
FinalWriteOncePerCompletedRun ==
    /\ finalWrites <= 1
    /\ finalWrites = 1 <=> run_pc = "done"
    /\ run_pc = "done" =>
         /\ \A u \in TargetSet : pc[u] = "done"
         /\ output = File(doc)
    /\ run_pc \in {"done", "aborted"} => \A u \in Units : pc[u] \in Terminal
    /\ run_pc = "aborted" => finalWrites = 0 /\ output = NoFile

\* a run with checkpoints enabled ended without any checkpoint having fired
FinalWriteOncePerCompletedRunWitness ==
    /\ run_pc = "done"
    /\ finalWrites = 1
    /\ args.save_every > 0
    /\ Len(targets) >= 1
    /\ ckpts = <<>>

NumSlots(c, kind) == Cardinality({u \in Units : c.slots[u] = kind})

\* C9: what a checkpoint saw agrees with itself: as many units set to
\* Translated as translated_count, as many set to SkippedPolicy as
\* failed_count, processed = their sum = the number of applied outcomes, and
\* the document holds the result of each applied outcome and the original
\* element of every other unit.
CheckpointConsistent ==
    lastCkpt # NoFile =>
        LET c == lastCkpt[1]
        IN /\ NumSlots(c, "Translated") = c.translated
           /\ NumSlots(c, "SkippedPolicy") = c.failed
           /\ ckpts[Len(ckpts)] = c.translated + c.failed
           /\ ckpts[Len(ckpts)] = Cardinality({u \in Units : c.slots[u] # "Unset"})
           /\ \A u \in Units :
                CASE c.slots[u] = "Translated" ->
                       c.doc[u] = [text |-> result[u].text, type |-> "none"]
                  [] c.slots[u] = "SkippedPolicy" ->
                       c.doc[u] = [text |-> doc0[u].text, type |-> "unfinished"]
                  [] OTHER -> c.doc[u] = doc0[u]

\* a checkpoint taken after a translation and a policy rejection were applied
CheckpointConsistentWitness ==
    /\ lastCkpt # NoFile
    /\ lastCkpt[1].translated >= 1
    /\ lastCkpt[1].failed >= 1

\* C10: once a task has raised, the run cannot end normally; in an aborted
\* run a unit exhausted its R+1 calls, no final write and no summary were
\* made, every task is terminal and a task that had not applied its outcome
\* left its unit as it was, nothing happens any more, and the partial file is
\* absent if no checkpoint was made and holds what the last checkpoint wrote
\* if that write succeeded.
AbortOnExhaustion ==
    /\ (run_pc = "gather" /\ SomeTaskRaised) => ~ENABLED Finish
    /\ run_pc = "aborted" =>
         /\ \E u \in Units : pc[u] = "raised" /\ calls[u] = R + 1
         /\ finalWrites = 0
         /\ output = NoFile
         /\ ~summary
         /\ \A u \in TargetSet :
              /\ pc[u] \in {"done", "raised", "cancelled"}
              /\ pc[u] # "done" => doc[u] = doc0[u]
         /\ translated_count + failed_count =
               Cardinality({u \in Units : pc[u] = "done"})
         /\ ~ENABLED Next
         /\ lastCkpt = NoFile => partial = NoFile
         /\ (lastCkpt # NoFile /\ lastCkpt[1].wrote) => partial = File(lastCkpt[1].doc)

\* an aborted run in which one unit raised and the result another task had
\* already received was dropped
AbortOnExhaustionWitness ==
    /\ run_pc = "aborted"
    /\ \E u, v \in Units :
         /\ pc[u] = "raised"
         /\ pc[v] = "cancelled" /\ result[v].ok /\ doc[v] = doc0[v]
\* C11: an aborted run printed a report that names the index of the unit
\* whose retry exhaustion aborted it and the exception that unit ended with.
ExhaustionReported ==
    run_pc = "aborted" =>
        /\ traceback # NoFile
        /\ LET rep == traceback[1]
           IN /\ rep.cls = task_exc[raiser].cls
              /\ rep.code = task_exc[raiser].code
              /\ "index" \in DOMAIN rep
              /\ rep.index = IndexOf(raiser)
\* C12: a checkpoint write that raised changes nothing else: the lock is free
\* again, no task has raised but by exhausting its calls and the run is only
\* aborted by such a task, the counters count the applied outcomes and the
\* document holds exactly these, every checkpoint that was due was attempted,
\* and once every task has returned the final write is made.
CheckpointFailureSwallowed ==
    /\ lock = 0 \/ pc[lock] = "locked"
    /\ ckptFailed =>
         /\ \A u \in Units : pc[u] = "raised" => calls[u] = R + 1 /\ OnlyTransient(u)
         /\ run_pc = "aborted" => \E u \in Units : pc[u] = "raised"
         /\ translated_count + failed_count =
               Cardinality({u \in Units : pc[u] = "done"})
         /\ \A u \in Units :
              doc[u] = IF pc[u] = "done" THEN MutatedElem(doc0[u], result[u])
                       ELSE doc0[u]
         /\ Len(ckpts) = (translated_count + failed_count) \div args.save_every
         /\ \A i \in 1..Len(ckpts) : ckpts[i] = i * args.save_every
         /\ (run_pc = "gather" /\ \A u \in TargetSet : pc[u] = "done") => ENABLED Finish
         /\ run_pc = "done" => finalWrites = 1 /\ output = File(doc)

\* the first checkpoint write raised, the second one was made and succeeded,
\* and the run ended with the final write
CheckpointFailureSwallowedWitness ==
    /\ run_pc = "done"
    /\ ckptFailed
    /\ ckpts = <<1, 2>>
    /\ lastCkpt[1].wrote
    /\ partial = File(doc)
    /\ output = File(doc)
\* C13: every call that failed transiently with attempts left was followed
\* by a sleep whose base delay is at most the cap and at least the base
\* delay of every earlier attempt of the unit (delays in half-seconds).
BackoffMonotone ==
    \A u \in Units :
        /\ pc[u] = "raised" => task_exc[u] # OverflowError
        /\ \A i \in 1..Len(delays[u]) :
             /\ delays[u][i] <= BackoffCap
             /\ delays[u][i] <= delays[u][Len(delays[u])]
\* the document after the result of u's task is written into u's element
Applied(d, u) == [d EXCEPT ![u] = MutatedElem(@, result[u])]

\* C14: for every unit whose task holds a Success, before and after it is
\* applied: writing the result twice gives the document that writing it once
\* gives, in which the unit has the returned text and no unfinished marker,
\* and which has the same units, the others unchanged.
SuccessIdempotent ==
    \A u \in Units :
        (pc[u] \in {"wantlock", "locked", "done"} /\ result[u].ok) =>
            LET once == Applied(doc, u)
                twice == Applied(once, u)
            IN /\ twice = once
               /\ once[u].text = result[u].text
               /\ once[u].type # "unfinished"
               /\ DOMAIN twice = DOMAIN doc
               /\ \A v \in Units \ {u} : twice[v] = doc[v]
               /\ pc[u] = "done" => once = doc

\* a Success was applied to a unit that was marked unfinished
SuccessIdempotentWitness ==
    \E u \in Units :
        /\ pc[u] = "done" /\ result[u].ok
        /\ doc0[u] = UnfinishedElem
        /\ doc[u] = [text |-> "tr", type |-> "none"]

\* a step in which the task of u leaves the lock-guarded section
Applies(u) == pc[u] = "locked" /\ pc'[u] = "done"

\* C15: the step that applies a Success to u sets u's text to the returned
\* text without marker, adds the tokens, increments translated_count by 1 and
\* leaves failed_count, skipped_count, the failure log and the other units.
SuccessEffect ==
    [][\A u \in Units : (Applies(u) /\ result[u].ok) =>
          /\ doc'[u] = [text |-> result[u].text, type |-> "none"]
          /\ usage'.input_tokens = usage.input_tokens + result[u].input_tokens
          /\ usage'.output_tokens = usage.output_tokens + result[u].output_tokens
          /\ translated_count' = translated_count + 1
          /\ failed_count' = failed_count
          /\ skipped_count' = skipped_count
          /\ failed_log' = failed_log
          /\ \A v \in Units \ {u} : doc'[v] = doc[v]]_vars

\* a Success with tokens was applied after a policy failure had been applied
SuccessEffectWitness ==
    /\ translated_count = 1 /\ failed_count = 1
    /\ usage = [input_tokens |-> 1, output_tokens |-> 2]
    /\ Len(failed_log) = 1
    /\ \E u \in Units : pc[u] = "done" /\ result[u].ok /\ doc[u].text = "tr"

\* C16: the step that applies a content-policy failure to u marks u
\* unfinished and keeps its text, increments failed_count by 1, appends one
\* record with u's index among the eligible units, its context, its source
\* text and the error code, and leaves translated_count, the token totals
\* and the other units.
PolicyFailureEffect ==
    [][\A u \in Units : (Applies(u) /\ ~result[u].ok) =>
          /\ doc'[u].type = "unfinished"
          /\ doc'[u].text = doc[u].text
          /\ failed_count' = failed_count + 1
          /\ Len(failed_log') = Len(failed_log) + 1
          /\ SubSeq(failed_log', 1, Len(failed_log)) = failed_log
          /\ LET rec == failed_log'[Len(failed_log')]
             IN /\ rec.index \in 1..Len(targets)
                /\ targets[rec.index] = u
                /\ rec.context = ContextName(u)
                /\ rec.source = SourceText(u)
                /\ rec.error_code = "content_filter"
          /\ translated_count' = translated_count
          /\ usage' = usage
          /\ \A v \in Units \ {u} : doc'[v] = doc[v]]_vars

\* the second unit of the document, the only eligible one, was rejected: its
\* record has index 1
PolicyFailureEffectWitness ==
    /\ pc[2] = "done" /\ ~result[2].ok
    /\ doc0[1] = FinishedElem
    /\ doc[2] = [text |-> doc0[2].text, type |-> "unfinished"]
    /\ failed_log = <<[index |-> 1, context |-> ContextName(2),
                       source |-> SourceText(2), error_code |-> "content_filter"]>>
    /\ translated_count = 0

\* C17: the failure log has as many records as failed_count, before and
\* after every step; a step only appends to it, as many records as it adds
\* to failed_count, and none when it applies a Success.
FailureLogAppendOnly ==
    [][/\ Len(failed_log) = failed_count
       /\ Len(failed_log') = failed_count'
       /\ Len(failed_log') >= Len(failed_log)
       /\ SubSeq(failed_log', 1, Len(failed_log)) = failed_log
       /\ \A u \in Units : (Applies(u) /\ result[u].ok) => failed_log' = failed_log
       /\ \A i \in 1..Len(failed_log') :
            /\ pc'[targets'[failed_log'[i].index]] = "done"
            /\ ~result'[targets'[failed_log'[i].index]].ok]_vars

\* two policy failures were logged, in the order in which they were applied
FailureLogAppendOnlyWitness ==
    /\ failed_count = 2
    /\ Len(failed_log) = 2
    /\ failed_log[1].index = 2 /\ failed_log[2].index = 1
\* C18: a task that waits for the lock or holds it holds no permit: once the
\* tasks are launched the free permits are the limit minus the tasks inside
\* translate_one_async, the holder of the lock is inside the lock-guarded
\* section, and a created task can enter whenever fewer tasks than the limit
\* are inside translate_one_async, whoever holds the lock.
GateReleasedBeforeLock ==
    /\ run_pc # "init" => sem = args.concurrency - Cardinality(InSem)
    /\ \A u \in Units : pc[u] \in {"wantlock", "locked"} => u \notin InSem
    /\ lock # 0 => pc[lock] = "locked"
    /\ \A u \in Units :
         (pc[u] = "created" /\ Cardinality(InSem) < args.concurrency)
            => ENABLED AcquireSem(u)

\* under limit 1 a task is in a remote call while another holds the lock
GateReleasedBeforeLockWitness ==
    /\ args.concurrency = 1
    /\ \E u, v \in Units : pc[u] = "locked" /\ lock = u /\ pc[v] = "call"
\* the remote calls of the unit failed transiently k times and then succeeded
FailedThenSucceeded(u, k) ==
    /\ Len(answers[u]) = k + 1
    /\ answers[u][k + 1] = "ok"
    /\ \A i \in 1..k : answers[u][i] = "transient"

\* C19: a transient failure with attempts left is followed by one sleep and
\* then by another call and never ends the task; a success ends the calls of
\* the unit at once; a unit whose calls failed transiently k <= R times and
\* then succeeded was called k+1 times, slept k times and holds a Success.
TransientRetried ==
    \A u \in Units :
        /\ pc[u] = "raised" => attempt[u] >= R
        /\ OnlyTransient(u) =>
             /\ pc[u] = "call" => calls[u] = Len(answers[u]) + 1
             /\ pc[u] = "sleep" =>
                   /\ Len(answers[u]) <= R
                   /\ calls[u] = Len(answers[u])
                   /\ ENABLED WakeUp(u)
             /\ pc[u] \in {"call", "sleep"} => sleeps[u] = Len(answers[u])
        /\ \A i \in 1..Len(answers[u]) : answers[u][i] = "ok" => i = Len(answers[u])
        /\ \A k \in 0..R : FailedThenSucceeded(u, k) =>
             /\ calls[u] = k + 1
             /\ sleeps[u] = k
             /\ result[u].ok
             /\ pc[u] \in {"wantlock", "locked", "done", "cancelled"}
\* the state of the unit's call of translate_one_async: not yet called, in a
\* remote call, in a backoff sleep, returned ok, returned the content-policy
\* failure, or left by an exception; a call that the abort of the run has
\* cancelled stays in the state in which it was cancelled
PolicyState(u) ==
    CASE pc[u] \in {"none", "created"} -> "Pending"
      [] pc[u] = "call" -> "Attempting"
      [] pc[u] = "sleep" -> "RetryWait"
      [] pc[u] = "raised" -> "ExhaustedFatal"
      [] pc[u] \in {"wantlock", "locked", "done"} ->
           (IF result[u].ok THEN "Succeeded" ELSE "SkippedPolicy")
      [] OTHER ->
           IF calls[u] = 0 THEN "Pending"
           ELSE IF Len(answers[u]) < calls[u] THEN "Attempting"
           ELSE IF answers[u][Len(answers[u])] = "ok" THEN "Succeeded"
           ELSE IF answers[u][Len(answers[u])] = "content_filter" THEN "SkippedPolicy"
           ELSE "RetryWait"

PolicyTransitions ==
    {<<"Pending", "Attempting">>, <<"Attempting", "Succeeded">>,
     <<"Attempting", "SkippedPolicy">>, <<"Attempting", "RetryWait">>,
     <<"RetryWait", "Attempting">>, <<"Attempting", "ExhaustedFatal">>}

\* C20: every call starts in Pending and every step leaves the state of each
\* call as it is or changes it along Pending -> Attempting, Attempting ->
\* Succeeded, Attempting -> SkippedPolicy, Attempting -> RetryWait, RetryWait
\* -> Attempting or Attempting -> ExhaustedFatal; no step changes the state
\* Succeeded, SkippedPolicy or ExhaustedFatal.
PolicyStateMachine ==
    /\ \A u \in Units : PolicyState(u) = "Pending"
    /\ [][\A u \in Units :
            \/ PolicyState(u)' = PolicyState(u)
            \/ <<PolicyState(u), PolicyState(u)'>> \in PolicyTransitions]_vars

\* a call went Pending, Attempting, RetryWait, Attempting, RetryWait,
\* Attempting, Succeeded
PolicyStateMachineWitness ==
    \E u \in Units : FailedThenSucceeded(u, 2) /\ pc[u] = "wantlock"
\* C21: the element of a unit changes only in the step in which its own task
\* leaves the lock-guarded section; from then on its text, its marker, the
\* result and the position of the task stay as they are; the document always
\* holds every unit.
SlotMutatedOnce ==
    [][\A u \in Units :
          /\ doc'[u] # doc[u] => Applies(u)
          /\ pc[u] = "done" =>
                /\ doc'[u] = doc[u]
                /\ pc'[u] = "done"
                /\ result'[u] = result[u]
          /\ DOMAIN doc' = Units]_vars

\* a unit is set to Translated while the task of another unit is inside
\* the section, about to write
SlotMutatedOnceWitness ==
    \E u, v \in Units :
        /\ pc[u] = "done" /\ result[u].ok /\ doc[u] # doc0[u]
        /\ pc[v] = "locked" /\ doc[v] = doc0[v]
\* when maybe_print(processed) of a reporter with this total and interval
\* is to print
ReportDue(processed, total, every) ==
    /\ every > 0
    /\ processed # 0
    /\ processed % every = 0 \/ processed = total

\* the lines that calls of maybe_print with processed = 1, ..., n print
ExpectedReports(n, total, every) ==
    LET Due(processed) == ReportDue(processed, total, every)
    IN SelectSeq([processed \in 1..n |-> processed], Due)

\* C22: for every processed count, total and interval, maybe_print prints
\* exactly when the interval is positive, processed is not 0 and processed
\* is a multiple of the interval or equals the total; in a run the lines
\* printed so far are exactly those due at processed = 1, 2, ... up to the
\* number of applied outcomes, which the counters count once each, line or
\* no line, and every task that called maybe_print has returned.  (The first
\* conjunct does not depend on the state and is evaluated where a run starts.)
ReportRule ==
    /\ run_pc = "init" =>
         \A processed \in 0..NUnits, total \in 0..NUnits, every \in (-1)..MaxEvery :
            MaybePrint(processed, total, every) <=> ReportDue(processed, total, every)
    /\ reports = ExpectedReports(translated_count + failed_count, CountCandidates,
                                 args.progress_every)
    /\ translated_count + failed_count = Cardinality({u \in Units : pc[u] = "done"})
    /\ run_pc # "init" => skipped_count = AlreadyDone(doc0)

\* with interval 2 and two eligible units one line was printed, at 2; no
\* line was printed at 1
ReportRuleWitness ==
    /\ args.progress_every = 2
    /\ translated_count + failed_count = 2
    /\ reports = <<2>>
\* the run has ended, with the final write or with an abort
RunEnded ==
    /\ run_pc \in {"done", "aborted"}
    /\ \A u \in Units : pc[u] \in Terminal
    /\ run_pc = "done" => finalWrites = 1

\* C23: no task makes more than R+1 calls, a run that has not ended can
\* always take a step (neither the gate nor the lock blocks every task), and
\* every fair run ends: every task reaches a terminal state and the run
\* makes the final write or aborts.
RunTerminates ==
    /\ [](\A u \in Units : calls[u] <= R + 1)
    /\ [](run_pc \notin {"done", "aborted"} => ENABLED Next)
    /\ <>RunEnded

\* under limit 1 two tasks shared the gate, one of them used all of its
\* R+1 > 1 calls, and the run made the final write
RunTerminatesWitness ==
    /\ run_pc = "done"
    /\ args.concurrency = 1
    /\ Len(targets) = 2
    /\ \E u \in Units : calls[u] = R + 1 /\ R >= 1
\* the units whose outcome has been applied
AppliedUnits == {u \in Units : pc[u] = "done"}

\* C24: translated_count + failed_count is the number of eligible units
\* whose outcome has been applied, translated_count those applied with a
\* Success and failed_count those applied with a failure, so each
\* application adds exactly 1; the sum never exceeds the number of eligible
\* units; from the launch on skipped_count is the number of units that were
\* already satisfied; a run that ended normally has translated_count +
\* failed_count + skipped_count = number of candidate units.
CounterConservation ==
    /\ AppliedUnits \subseteq {u \in Units : EligibleAtStart(u)}
    /\ translated_count + failed_count = Cardinality(AppliedUnits)
    /\ translated_count = Cardinality({u \in AppliedUnits : result[u].ok})
    /\ failed_count = Cardinality({u \in AppliedUnits : ~result[u].ok})
    /\ translated_count + failed_count <=
          Cardinality({u \in Units : EligibleAtStart(u)})
    /\ run_pc # "init" =>
          skipped_count = Cardinality({u \in Units : ~EligibleAtStart(u)})
    /\ run_pc = "done" =>
          translated_count + failed_count + skipped_count = Cardinality(Units)

\* a run ended normally over one already satisfied unit and one eligible
\* unit, which was rejected
CounterConservationWitness ==
    /\ run_pc = "done"
    /\ translated_count = 0 /\ failed_count = 1 /\ skipped_count = 1
\* C25: a unit to which a Success was applied is not eligible any more:
\* _should_translate is false for its element, whatever text was returned.
NotEligibleAfterSuccess ==
    \A u \in Units :
        (pc[u] = "done" /\ result[u].ok) => ~ShouldTranslate(doc[u])
====
